---------------------------- MODULE Spec2Model ----------------------------
(*
  Space mission planner (src/C&C++/SpaceRockets.c): the menu loop of main,
  run_mission and the helpers it calls.

  Number representation.  The program computes in C doubles; the model uses
  fixed point, with every quantity an integer count of a unit:
    masses                      kg
    delta-v (km/s)              1e-6 km/s   (9.30 km/s is 9300000)
    isp_avg                     s
    staging_factor              1e-2        (1.4 is 140)
    synodic_days                1e-1 day    (29.5 days is 295)
    typical_transit_days        day
    time_t                      s since 1970-01-01 00:00:00
  Strings (names, dates typed at the prompt) are sequences of one-character
  strings, so that strstr and sscanf are computed character by character.
  mktime is modelled for a process whose local time zone is UTC.
*)
EXTENDS Integers, Sequences, FiniteSets, TLC

VARIABLES
    rockets,    \* the global array rockets[]
    bodies,     \* the global array bodies[]
    m,          \* main's Mission m, reused by every planning request
    pc,         \* where main's loop stands
    res,        \* run_mission's locals at its return (NoResult outside a call)
    entry,      \* history: m->strategy as run_mission found it on entry
    call        \* the direct call of a helper function under test

vars == <<rockets, bodies, m, pc, res, entry, call>>

(***************************************************************************)
(* Program constants                                                       *)
(***************************************************************************)
G0 == 980665
EARTH_ASCENT_COST == 9300000
DATE_STRLEN == 20
NUM_WINDOWS == 5
SECONDS_PER_DAY == 86400

\* One unit of a natural logarithm in fixed point: log values count 1e-8.
LnUnit == 10000 * 10000

(***************************************************************************)
(* Character strings                                                       *)
(***************************************************************************)
Digits == <<"0","1","2","3","4","5","6","7","8","9">>

IsDigit(c) == \E i \in 1..10 : Digits[i] = c

DigitValue(c) == (CHOOSE i \in 1..10 : Digits[i] = c) - 1

IsSpace(c) == c \in {" ", "\t", "\n", "\r"}

\* strlen(s)
strlen(s) == Len(s)

\* needle occurs in hay starting at position i
MatchesAt(hay, needle, i) ==
    /\ i + Len(needle) - 1 <= Len(hay)
    /\ \A k \in 1..Len(needle) : hay[i + k - 1] = needle[k]

\* strstr(hay, needle) != NULL
strstr(hay, needle) == \E i \in 1..(Len(hay) + 1) : MatchesAt(hay, needle, i)

\* strncpy(dst, src, n) into a zeroed buffer: the first n characters of src
strncpy(src, n) == IF Len(src) <= n THEN src ELSE SubSeq(src, 1, n)

(***************************************************************************)
(* The catalog                                                             *)
(***************************************************************************)
CatalogRockets == <<
    [name |-> <<"S","p","a","c","e","X","'","s"," ","S","t","a","r","s","h","i","p">>,
     wet_mass_kg |-> 5000000, dry_mass_kg |-> 200000, isp_avg |-> 350,
     payload_leo_kg |-> 150000, staging_factor |-> 140,
     refuel_dv_per_tanker |-> 5500000],
    [name |-> <<"N","A","S","A","'","s"," ","S","L","S">>,
     wet_mass_kg |-> 2600000, dry_mass_kg |-> 110000, isp_avg |-> 400,
     payload_leo_kg |-> 95000, staging_factor |-> 150,
     refuel_dv_per_tanker |-> 0],
    [name |-> <<"B","l","u","e"," ","O","r","i","g","i","n","'","s"," ","N","e","w"," ","G","l","e","n","n">>,
     wet_mass_kg |-> 1700000, dry_mass_kg |-> 100000, isp_avg |-> 340,
     payload_leo_kg |-> 45000, staging_factor |-> 140,
     refuel_dv_per_tanker |-> 0],
    [name |-> <<"I","S","R","O","'","s"," ","M","a","n","g","a","l","y","a","a","n"," ","1"," ","(","P","S","L","V",")">>,
     wet_mass_kg |-> 320000, dry_mass_kg |-> 42000, isp_avg |-> 275,
     payload_leo_kg |-> 1750, staging_factor |-> 120,
     refuel_dv_per_tanker |-> 0] >>

CatalogBodies == <<
    [name |-> <<"M","o","o","n">>,
     dv_transfer |-> 3120000, dv_capture |-> 2800000, synodic_days |-> 295,
     epoch_date |-> <<"2","0","2","5","-","0","1","-","1","3">>,
     typical_transit_days |-> 3],
    [name |-> <<"M","a","r","s">>,
     dv_transfer |-> 3800000, dv_capture |-> 2100000, synodic_days |-> 7800,
     epoch_date |-> <<"2","0","2","5","-","0","1","-","1","6">>,
     typical_transit_days |-> 210],
    [name |-> <<"T","i","t","a","n"," ","(","S","a","t","u","r","n",")">>,
     dv_transfer |-> 7300000, dv_capture |-> 3000000, synodic_days |-> 3781,
     epoch_date |-> <<"2","0","2","5","-","0","9","-","2","1">>,
     typical_transit_days |-> 1000] >>

(***************************************************************************)
(* Dates: sscanf("%d-%d-%d") and mktime                                    *)
(***************************************************************************)
\* first position at or after i that holds no white space
RECURSIVE SkipSpace(_, _)
SkipSpace(s, i) ==
    IF i <= Len(s) /\ IsSpace(s[i]) THEN SkipSpace(s, i + 1) ELSE i

\* the digits from position i on: <<value, next position>>
RECURSIVE ScanDigits(_, _, _)
ScanDigits(s, i, acc) ==
    IF i <= Len(s) /\ IsDigit(s[i])
    THEN ScanDigits(s, i + 1, acc * 10 + DigitValue(s[i]))
    ELSE <<acc, i>>

\* one %d conversion at position i: [ok, val, next]
ScanInt(s, i) ==
    LET j == SkipSpace(s, i)
        signed == j <= Len(s) /\ s[j] \in {"-", "+"}
        k == IF signed THEN j + 1 ELSE j
        d == ScanDigits(s, k, 0)
    IN  IF k <= Len(s) /\ IsDigit(s[k])
        THEN [ok |-> TRUE,
              val |-> IF signed /\ s[j] = "-" THEN 0 - d[1] ELSE d[1],
              next |-> d[2]]
        ELSE [ok |-> FALSE, val |-> 0, next |-> k]

\* sscanf(s, "%d-%d-%d", &y, &m, &d): [n, y, m, d], n the conversions made
sscanf_date(s) ==
    LET a == ScanInt(s, 1)
        b == ScanInt(s, a.next + 1)
        c == ScanInt(s, b.next + 1)
        dash(i) == i <= Len(s) /\ s[i] = "-"
    IN  IF ~a.ok THEN [n |-> 0, y |-> 0, m |-> 0, d |-> 0]
        ELSE IF ~dash(a.next) \/ ~b.ok THEN [n |-> 1, y |-> a.val, m |-> 0, d |-> 0]
        ELSE IF ~dash(b.next) \/ ~c.ok THEN [n |-> 2, y |-> a.val, m |-> b.val, d |-> 0]
        ELSE [n |-> 3, y |-> a.val, m |-> b.val, d |-> c.val]

\* days from 1970-01-01 to the civil date y-mo-d (mo in 1..12)
DaysFromCivil(y, mo, d) ==
    LET yy == IF mo <= 2 THEN y - 1 ELSE y
        era == yy \div 400
        yoe == yy - era * 400
        mp == (mo + 9) % 12
        doy == (153 * mp + 2) \div 5 + d - 1
        doe == yoe * 365 + yoe \div 4 - yoe \div 100 + doy
    IN  era * 146097 + doe - 719468

\* mktime of {tm_year, tm_mon, tm_mday} at 00:00:00: out-of-range months and
\* days are normalised, not rejected
mktime(tm_year, tm_mon, tm_mday) ==
    LET y == tm_year + 1900 + tm_mon \div 12
        mo == (tm_mon % 12) + 1
    IN  (DaysFromCivil(y, mo, 1) + tm_mday - 1) * SECONDS_PER_DAY

parse_date(s) ==
    IF strlen(s) < 8 THEN -1
    ELSE LET f == sscanf_date(s)
         IN  IF f.n # 3 THEN -1
             ELSE mktime(f.y - 1900, f.m - 1, f.d)

(***************************************************************************)
(* Fixed-point arithmetic for the double expressions                       *)
(***************************************************************************)
\* floor(a * b / LnUnit) for a, b >= 0, computed without forming a * b:
\* a = a1 * 10^4 + a0 and b = b1 * 10^4 + b0
MulScale(a, b) ==
    LET a1 == a \div 10000
        a0 == a % 10000
        b1 == b \div 10000
        b0 == b % 10000
    IN  a1 * b1 + (a1 * b0 + a0 * b1 + (a0 * b0) \div 10000) \div 10000

\* floor(n * 100^digits / c) for 0 <= n < c: long division, two decimal
\* digits a step
RECURSIVE LongRem(_, _, _)
LongRem(n, c, digits) ==
    IF digits = 0 THEN n ELSE (LongRem(n, c, digits - 1) * 100) % c

RECURSIVE LongDiv(_, _, _)
LongDiv(n, c, digits) ==
    IF digits = 0 THEN 0
    ELSE LET q == LongDiv(n, c, digits - 1)
             r == LongRem(n, c, digits - 1)
         IN  q * 100 + (r * 100) \div c

\* ceil(a / b) for b > 0
CeilDiv(a, b) == 0 - ((0 - a) \div b)

\* the k with mf * 2^k <= m0 < mf * 2^(k+1), for m0 >= mf > 0
RECURSIVE Halvings(_, _)
Halvings(m0, mf) == IF 2 * mf <= m0 THEN 1 + Halvings(m0, 2 * mf) ELSE 0

RECURSIVE Pow2(_)
Pow2(k) == IF k = 0 THEN 1 ELSE 2 * Pow2(k - 1)

\* sum over n in i..last of y^(2n+1) / (2n+1), p = y^(2i+1), in LnUnit
\* (the singleton sets bind each value once it is computed)
RECURSIVE AtanhSeries(_, _, _, _)
AtanhSeries(p, y2, i, last) ==
    IF i > last THEN 0
    ELSE CHOOSE sum \in
            { pv \div (2 * i + 1) + AtanhSeries(MulScale(pv, yv), yv, i + 1, last) :
                pv \in {p}, yv \in {y2} } : TRUE

\* log(m0 / mf) in LnUnit, for m0 > mf > 0:
\*   m0 / mf = 2^k * r, r in [1, 2);  log r = 2 * atanh((r - 1) / (r + 1))
log_ratio(m0, mf) ==
    LET k == Halvings(m0, mf)
        d == mf * Pow2(k)
    IN  CHOOSE lg \in
            { k * 69314718 + 2 * AtanhSeries(y, MulScale(y, y), 0, 9) :
                y \in {LongDiv(m0 - d, m0 + d, 4)} } : TRUE

(***************************************************************************)
(* calc_capability                                                         *)
(***************************************************************************)
\* calc_capability without the payload-capacity test
calc_capability_NoPayloadGuard(r, payload) ==
    LET m0 == r.wet_mass_kg + payload
        mf == r.dry_mass_kg + payload
    IN  IF mf <= 0 \/ m0 <= mf THEN 0
        ELSE LET igl == MulScale(r.isp_avg * G0, log_ratio(m0, mf))
                 dv == igl \div 100
             IN  (dv \div 100) * r.staging_factor
                     + ((dv % 100) * r.staging_factor) \div 100

\* calc_capability with the payload left out of the two masses
calc_capability_NoPayloadMass(r, payload) ==
    IF payload > r.payload_leo_kg THEN 0
    ELSE LET m0 == r.wet_mass_kg
             mf == r.dry_mass_kg
         IN  IF mf <= 0 \/ m0 <= mf THEN 0
             ELSE LET igl == MulScale(r.isp_avg * G0, log_ratio(m0, mf))
                      dv == igl \div 100
                  IN  (dv \div 100) * r.staging_factor
                          + ((dv % 100) * r.staging_factor) \div 100

calc_capability(r, payload) ==
    IF payload > r.payload_leo_kg THEN 0
    ELSE LET m0 == r.wet_mass_kg + payload
             mf == r.dry_mass_kg + payload
         IN  IF mf <= 0 \/ m0 <= mf THEN 0
             ELSE LET \* isp * G0 * log(m0/mf), in 1e-5 m/s
                      igl == MulScale(r.isp_avg * G0, log_ratio(m0, mf))
                      \* ... / 1000.0, in 1e-6 km/s
                      dv == igl \div 100
                  IN  \* dv *= staging_factor
                      (dv \div 100) * r.staging_factor
                          + ((dv % 100) * r.staging_factor) \div 100

(***************************************************************************)
(* compute_tanker_plan                                                     *)
(***************************************************************************)
\* compute_tanker_plan rounding down
compute_tanker_plan_Floor(mis, shortage) ==
    LET per_tanker == mis.rocket.refuel_dv_per_tanker
    IN  IF per_tanker <= 0 \/ shortage <= 0 THEN 0
        ELSE shortage \div per_tanker

\* the value returned (and stored through tankers_needed)
compute_tanker_plan(mis, shortage) ==
    LET per_tanker == mis.rocket.refuel_dv_per_tanker
    IN  IF per_tanker <= 0 \/ shortage <= 0 THEN 0
        ELSE CeilDiv(shortage, per_tanker)

(***************************************************************************)
(* run_mission                                                             *)
(***************************************************************************)
\* m->notes after strcpy(m->notes, text)
Note(text) == [text |-> text, arg |-> 0]

\* m->notes after snprintf(tmp, fmt, n) and strncpy(m->notes, tmp, ...)
NoteFmt(fmt, n) == [text |-> fmt, arg |-> n]

total_required(body) == EARTH_ASCENT_COST + body.dv_transfer + body.dv_capture

\* run_mission keeping the strategy and notes the Mission came with
InitStrategy_Stale(mis) == mis

\* "Initialize strategy and notes"
InitStrategy(mis) == [mis EXCEPT !.strategy = 0, !.notes = Note("None")]

\* SelectStrategy with the refuel test ahead of the Titan test
SelectStrategy_RefuelFirst(mis, margin) ==
    IF margin < 0 THEN
        IF strstr(mis.rocket.name, <<"S","t","a","r","s","h","i","p">>) THEN
            [m |-> [mis EXCEPT !.strategy = 3,
                     !.notes = Note("Assumption: LEO refueling by tanker missions")],
             bonus_dv |-> 0]
        ELSE IF strstr(mis.body.name, <<"T","i","t","a","n">>) THEN
            [m |-> [mis EXCEPT !.strategy = 2,
                     !.notes = Note("Alternate route: VEEGA gravity assist (~7 year flight)")],
             bonus_dv |-> 4500000]
        ELSE IF margin > -1500000 THEN
            [m |-> [mis EXCEPT !.strategy = 4,
                     !.notes = Note("Assumption: Added 'Star 48' solid kick stage")],
             bonus_dv |-> 2000000]
        ELSE
            [m |-> [mis EXCEPT !.strategy = -1,
                     !.notes = Note("No feasible profile found with current assumptions")],
             bonus_dv |-> 0]
    ELSE
        IF /\ strstr(mis.rocket.name, <<"P","S","L","V">>)
           /\ strstr(mis.body.name, <<"M","a","r","s">>)
           /\ mis.payload_kg <= 1500
        THEN
            [m |-> [mis EXCEPT !.strategy = 1,
                     !.notes = Note("Oberth/Kick-perigee method for low-mass Mars mission")],
             bonus_dv |-> 6500000]
        ELSE [m |-> mis, bonus_dv |-> 0]

\* the decision logic: the Mission with its strategy and notes, and bonus_dv
SelectStrategy(mis, margin) ==
    IF margin < 0 THEN
        IF strstr(mis.body.name, <<"T","i","t","a","n">>) THEN
            [m |-> [mis EXCEPT !.strategy = 2,
                     !.notes = Note("Alternate route: VEEGA gravity assist (~7 year flight)")],
             bonus_dv |-> 4500000]
        ELSE IF strstr(mis.rocket.name, <<"S","t","a","r","s","h","i","p">>) THEN
            [m |-> [mis EXCEPT !.strategy = 3,
                     !.notes = Note("Assumption: LEO refueling by tanker missions")],
             bonus_dv |-> 0]
        ELSE IF margin > -1500000 THEN
            [m |-> [mis EXCEPT !.strategy = 4,
                     !.notes = Note("Assumption: Added 'Star 48' solid kick stage")],
             bonus_dv |-> 2000000]
        ELSE
            [m |-> [mis EXCEPT !.strategy = -1,
                     !.notes = Note("No feasible profile found with current assumptions")],
             bonus_dv |-> 0]
    ELSE
        IF /\ strstr(mis.rocket.name, <<"P","S","L","V">>)
           /\ strstr(mis.body.name, <<"M","a","r","s">>)
           /\ mis.payload_kg <= 1500
        THEN
            [m |-> [mis EXCEPT !.strategy = 1,
                     !.notes = Note("Oberth/Kick-perigee method for low-mass Mars mission")],
             bonus_dv |-> 6500000]
        ELSE [m |-> mis, bonus_dv |-> 0]

\* FinalCapability crediting one tanker's delta-v whatever the tanker count
FinalCapability_OneTanker(mis, cap, total_req, bonus_dv) ==
    IF mis.strategy = 3 THEN
        LET shortage == total_req - cap
        IN  IF shortage <= 0
            THEN [m |-> mis, tankers_needed |-> 0, final_cap |-> cap]
            ELSE LET planned == compute_tanker_plan(mis, shortage)
                     tankers == IF planned < 0 THEN 0 ELSE planned
                 IN  [m |-> [mis EXCEPT !.notes =
                                NoteFmt("LEO refueling: estimated %d tanker(s) required", tankers)],
                      tankers_needed |-> tankers,
                      final_cap |-> cap + mis.rocket.refuel_dv_per_tanker]
    ELSE [m |-> mis, tankers_needed |-> 0, final_cap |-> cap + bonus_dv]

\* FinalCapability leaving the bonus delta-v out of the final capability
FinalCapability_BonusDropped(mis, cap, total_req, bonus_dv) ==
    IF mis.strategy = 3 THEN
        LET shortage == total_req - cap
        IN  IF shortage <= 0
            THEN [m |-> mis, tankers_needed |-> 0, final_cap |-> cap]
            ELSE LET planned == compute_tanker_plan(mis, shortage)
                     tankers == IF planned < 0 THEN 0 ELSE planned
                 IN  [m |-> [mis EXCEPT !.notes =
                                NoteFmt("LEO refueling: estimated %d tanker(s) required", tankers)],
                      tankers_needed |-> tankers,
                      final_cap |-> cap + tankers * mis.rocket.refuel_dv_per_tanker]
    ELSE [m |-> mis, tankers_needed |-> 0, final_cap |-> cap]

\* "If strategy is refuel, compute how many tankers required":
\* the Mission (its notes), tankers_needed and final_cap
FinalCapability(mis, cap, total_req, bonus_dv) ==
    IF mis.strategy = 3 THEN
        LET shortage == total_req - cap
        IN  IF shortage <= 0
            THEN [m |-> mis, tankers_needed |-> 0, final_cap |-> cap]
            ELSE LET planned == compute_tanker_plan(mis, shortage)
                     tankers == IF planned < 0 THEN 0 ELSE planned
                 IN  [m |-> [mis EXCEPT !.notes =
                                NoteFmt("LEO refueling: estimated %d tanker(s) required", tankers)],
                      tankers_needed |-> tankers,
                      final_cap |-> cap + tankers * mis.rocket.refuel_dv_per_tanker]
    ELSE [m |-> mis, tankers_needed |-> 0, final_cap |-> cap + bonus_dv]

FinalMargin(final_cap, total_req) == final_cap - total_req

\* Success without the margin test
Success_IgnoresMargin(final_margin, strategy) == strategy # -1

Success(final_margin, strategy) == final_margin >= 0 /\ strategy # -1

\* CycleIndex without the clamp at the epoch
CycleIndex_NoClamp(diff, cycle_sec) == diff \div cycle_sec

\* cycles: the index of the synodic cycle the start date falls in
CycleIndex(diff, cycle_sec) == IF diff <= 0 THEN 0 ELSE diff \div cycle_sec

\* LaunchWindow multiplying the cycle index by the row index
LaunchWindow_CycleTimesIndex(mis, epoch, cycles, cycle_sec, i) ==
    LET launch == epoch + (cycles * i) * cycle_sec
        days == IF mis.strategy = 2 /\ strstr(mis.body.name, <<"T","i","t","a","n">>)
                THEN 2555
                ELSE mis.body.typical_transit_days
    IN  [launch |-> launch, arrival |-> launch + days * SECONDS_PER_DAY]

\* LaunchWindow taking the long flight for Titan whatever the strategy
LaunchWindow_TitanAlways(mis, epoch, cycles, cycle_sec, i) ==
    LET launch == epoch + (cycles + i) * cycle_sec
        days == IF strstr(mis.body.name, <<"T","i","t","a","n">>)
                THEN 2555
                ELSE mis.body.typical_transit_days
    IN  [launch |-> launch, arrival |-> launch + days * SECONDS_PER_DAY]

\* one row of the launch-window table
LaunchWindow(mis, epoch, cycles, cycle_sec, i) ==
    LET launch == epoch + (cycles + i) * cycle_sec
        days == IF mis.strategy = 2 /\ strstr(mis.body.name, <<"T","i","t","a","n">>)
                THEN 2555
                ELSE mis.body.typical_transit_days
    IN  [launch |-> launch, arrival |-> launch + days * SECONDS_PER_DAY]

\* the launch-window table, from the two parsed dates
WindowTable(mis, start, epoch) ==
    LET cycle_sec == mis.body.synodic_days * (SECONDS_PER_DAY \div 10)
        diff == start - epoch
    IN  CHOOSE t \in
            { [start |-> start, epoch |-> epoch, cycle_sec |-> cycle_sec,
               cycles |-> cycles,
               windows |-> [i \in 1..NUM_WINDOWS |->
                               LaunchWindow(mis, epoch, cycles, cycle_sec, i - 1)]] :
                cycles \in {CycleIndex(diff, cycle_sec)} } : TRUE

\* "Print next five launch windows"
LaunchWindows(mis) ==
    CHOOSE t \in
        { WindowTable(mis, start, epoch) :
            start \in {parse_date(mis.start_date)},
            epoch \in {parse_date(mis.body.epoch_date)} } : TRUE

\* run_mission from the verdict on: the Mission it leaves and its locals at
\* the return
Report(fin, bonus_dv, cap, total_req) ==
    CHOOSE r \in
        { [m |-> fin.m,
           res |-> [total_req |-> total_req, cap |-> cap,
                    margin |-> cap - total_req,
                    bonus_dv |-> bonus_dv,
                    tankers_needed |-> fin.tankers_needed,
                    final_cap |-> fin.final_cap,
                    final_margin |-> final_margin,
                    success |-> Success(final_margin, fin.m.strategy),
                    start |-> win.start, epoch |-> win.epoch,
                    cycle_sec |-> win.cycle_sec, cycles |-> win.cycles,
                    windows |-> win.windows]] :
            final_margin \in {FinalMargin(fin.final_cap, total_req)},
            win \in {LaunchWindows(fin.m)} } : TRUE

\* run_mission from the decision logic on
Decide(m1, cap, total_req) ==
    CHOOSE r \in
        { CHOOSE q \in
            { Report(fin, sel.bonus_dv, cap, total_req) :
                fin \in {FinalCapability(sel.m, cap, total_req, sel.bonus_dv)} } : TRUE :
            sel \in {SelectStrategy(m1, cap - total_req)} } : TRUE

\* run_mission(&m)
run_mission(mis) ==
    CHOOSE r \in
        { Decide(InitStrategy(mis), cap, total_req) :
            total_req \in {total_required(mis.body)},
            cap \in {calc_capability(mis.rocket, mis.payload_kg)} } : TRUE

(***************************************************************************)
(* What the user types                                                     *)
(***************************************************************************)
\* a scanf("%d") of a menu number: no number read, or the number
SelectionInputs(n) ==
    {[ok |-> FALSE, val |-> 0]} \cup {[ok |-> TRUE, val |-> v] : v \in 0..(n + 1)}

DEFAULT_START_DATE == <<"2","0","2","5","-","0","1","-","0","1">>

\* the lines typed at the start-date prompt
DateInputs == {
    << >>,
    <<"2","0","2","5","-","1">>,
    <<"2","0","2","4","-","0","6","-","1","5">>,
    <<"2","0","2","5","-","0","1","-","1","3">>,
    <<"2","0","2","5","-","0","2","-","3","0">>,
    <<"2","0","2","6","-","1","1","-","0","1">>,
    <<"2","0","2","7","-","0","3","-","1","0">>,
    <<"a","b","c","d","e","f","g","h">>,
    <<"2","0","2","5","/","0","1","/","0","1">> }

\* the numbers typed at the payload prompt, kg
PayloadInputs ==
    {-5, 0, 1000, 1500, 1501, 1751, 20000, 95000, 100000, 140000, 150001}

(***************************************************************************)
(* main                                                                    *)
(***************************************************************************)
NUM_ROCKETS == Len(rockets)
NUM_BODIES == Len(bodies)

\* memset(&m, 0, sizeof(m))
ZeroMission ==
    [rocket |-> [name |-> << >>, wet_mass_kg |-> 0, dry_mass_kg |-> 0,
                 isp_avg |-> 0, payload_leo_kg |-> 0, staging_factor |-> 0,
                 refuel_dv_per_tanker |-> 0],
     body |-> [name |-> << >>, dv_transfer |-> 0, dv_capture |-> 0,
               synodic_days |-> 0, epoch_date |-> << >>,
               typical_transit_days |-> 0],
     start_date |-> << >>,
     payload_kg |-> 0,
     strategy |-> 0,
     notes |-> Note("")]

\* no call of run_mission is at its return
NoResult ==
    [total_req |-> 0, cap |-> 0, margin |-> 0, bonus_dv |-> 0,
     tankers_needed |-> 0, final_cap |-> 0, final_margin |-> 0,
     success |-> FALSE, start |-> 0, epoch |-> 0, cycle_sec |-> 0,
     cycles |-> 0, windows |-> << >>]

NoCall == [fn |-> "none", rocket |-> ZeroMission.rocket, x |-> 0, ret |-> 0]

\* the index a menu selection resolves to
ClampSelection(sel, n) ==
    LET v == IF sel.ok THEN sel.val ELSE 1
    IN  IF v < 1 \/ v > n THEN 1 ELSE v

\* m.start_date after the start-date prompt; eof: fgets returned NULL
ReadDate(line, eof) ==
    LET buf == IF eof THEN DEFAULT_START_DATE
               ELSE strncpy(line, DATE_STRLEN - 1)
    IN  IF strlen(buf) < 8 THEN DEFAULT_START_DATE
        ELSE strncpy(buf, DATE_STRLEN - 1)

\* payload after the payload prompt
ReadPayload(inp) ==
    LET payload == IF inp.ok THEN inp.val ELSE 0
    IN  IF payload < 0 THEN 0 ELSE payload

\* choice 1: list the catalog
ListOptions ==
    /\ pc = "menu"
    /\ UNCHANGED vars

\* any other choice than 1, 2, 3
InvalidChoice ==
    /\ pc = "menu"
    /\ UNCHANGED vars

\* choice 3
Quit ==
    /\ pc = "menu"
    /\ pc' = "done"
    /\ UNCHANGED <<rockets, bodies, m, res, entry, call>>

\* choice 2
PlanMission ==
    /\ pc = "menu"
    /\ pc' = "rocket"
    /\ UNCHANGED <<rockets, bodies, m, res, entry, call>>

SelectRocket ==
    /\ pc = "rocket"
    /\ \E rsel \in SelectionInputs(NUM_ROCKETS) :
          m' = [m EXCEPT !.rocket = rockets[ClampSelection(rsel, NUM_ROCKETS)]]
    /\ pc' = "body"
    /\ UNCHANGED <<rockets, bodies, res, entry, call>>

SelectBody ==
    /\ pc = "body"
    /\ \E bsel \in SelectionInputs(NUM_BODIES) :
          m' = [m EXCEPT !.body = bodies[ClampSelection(bsel, NUM_BODIES)]]
    /\ pc' = "date"
    /\ UNCHANGED <<rockets, bodies, res, entry, call>>

ReadStartDate ==
    /\ pc = "date"
    /\ \E line \in DateInputs, eof \in BOOLEAN :
          m' = [m EXCEPT !.start_date = ReadDate(line, eof)]
    /\ pc' = "payload"
    /\ UNCHANGED <<rockets, bodies, res, entry, call>>

ReadPayloadMass ==
    /\ pc = "payload"
    /\ \E inp \in {[ok |-> FALSE, val |-> 0]}
                    \cup {[ok |-> TRUE, val |-> v] : v \in PayloadInputs} :
          m' = [m EXCEPT !.payload_kg = ReadPayload(inp)]
    /\ pc' = "run"
    /\ UNCHANGED <<rockets, bodies, res, entry, call>>

\* run_mission(&m), up to its return
RunMission ==
    /\ pc = "run"
    /\ \E r \in {run_mission(m)} :
          /\ m' = r.m
          /\ res' = r.res
    /\ entry' = m.strategy
    /\ pc' = "ran"
    /\ UNCHANGED <<rockets, bodies, call>>

\* run_mission returns; "After run, loop back"
Return ==
    /\ pc = "ran"
    /\ res' = NoResult
    /\ entry' = 0
    /\ pc' = "menu"
    /\ UNCHANGED <<rockets, bodies, m, call>>

Init ==
    /\ rockets = CatalogRockets
    /\ bodies = CatalogBodies
    /\ m = ZeroMission
    /\ pc = "menu"
    /\ res = NoResult
    /\ entry = 0
    /\ call = NoCall

Next ==
    \/ ListOptions
    \/ InvalidChoice
    \/ Quit
    \/ PlanMission
    \/ SelectRocket
    \/ SelectBody
    \/ ReadStartDate
    \/ ReadPayloadMass
    \/ RunMission
    \/ Return

Spec == Init /\ [][Next]_vars

(***************************************************************************)
(* The same program over a test catalog: the catalog's rockets and six     *)
(* more, which reach the branches no catalog rocket reaches                *)
(***************************************************************************)
TestRockets == CatalogRockets \o <<
    \* named Starship, but not refuelable
    [name |-> <<"S","t","a","r","s","h","i","p"," ","L","i","t","e">>,
     wet_mass_kg |-> 1200000, dry_mass_kg |-> 100000, isp_avg |-> 350,
     payload_leo_kg |-> 100000, staging_factor |-> 140,
     refuel_dv_per_tanker |-> 0],
    \* a PSLV that reaches Mars with margin
    [name |-> <<"P","S","L","V","-","X","L">>,
     wet_mass_kg |-> 320000, dry_mass_kg |-> 12000, isp_avg |-> 450,
     payload_leo_kg |-> 1750, staging_factor |-> 120,
     refuel_dv_per_tanker |-> 0],
    \* a Starship whose tankers add 0.7 km/s each
    [name |-> <<"S","t","a","r","s","h","i","p"," ","T","u","g">>,
     wet_mass_kg |-> 5000000, dry_mass_kg |-> 200000, isp_avg |-> 350,
     payload_leo_kg |-> 150000, staging_factor |-> 140,
     refuel_dv_per_tanker |-> 700000],
    \* no propellant: wet mass equals dry mass
    [name |-> <<"I","n","e","r","t"," ","S","t","a","g","e">>,
     wet_mass_kg |-> 50000, dry_mass_kg |-> 50000, isp_avg |-> 300,
     payload_leo_kg |-> 200000, staging_factor |-> 100,
     refuel_dv_per_tanker |-> 0],
    \* reaches Titan with margin when lightly loaded
    [name |-> <<"H","e","a","v","y"," ","L","i","f","t","e","r">>,
     wet_mass_kg |-> 4000000, dry_mass_kg |-> 100000, isp_avg |-> 400,
     payload_leo_kg |-> 100000, staging_factor |-> 150,
     refuel_dv_per_tanker |-> 0],
    \* a Starship whose tankers are configured to take delta-v away
    [name |-> <<"S","t","a","r","s","h","i","p"," ","D","e","b","i","t">>,
     wet_mass_kg |-> 5000000, dry_mass_kg |-> 200000, isp_avg |-> 350,
     payload_leo_kg |-> 150000, staging_factor |-> 140,
     refuel_dv_per_tanker |-> -1000000] >>

InitEval ==
    /\ rockets = TestRockets
    /\ bodies = CatalogBodies
    /\ m = ZeroMission
    /\ pc = "menu"
    /\ res = NoResult
    /\ entry = 0
    /\ call = NoCall

SpecEval == InitEval /\ [][Next]_vars

(***************************************************************************)
(* Direct calls of calc_capability and compute_tanker_plan                 *)
(***************************************************************************)
MaxShortageSteps == 40

\* shortages, 0.35 km/s apart, from below zero up
ShortageInputs == {k * 350000 : k \in (-2)..MaxShortageSteps}

\* refuel_dv_per_tanker of the rocket of the Mission passed
TankerRateInputs == {-1000000, 0, 700000, 5500000}

\* rockets passed to calc_capability: the test catalog and degenerate ones
CapabilityRockets ==
    {TestRockets[i] : i \in 1..Len(TestRockets)} \cup {
    \* no dry mass
    [name |-> <<"M","a","s","s","l","e","s","s">>,
     wet_mass_kg |-> 100, dry_mass_kg |-> 0, isp_avg |-> 300,
     payload_leo_kg |-> 50, staging_factor |-> 100,
     refuel_dv_per_tanker |-> 0],
    \* dry mass above wet mass
    [name |-> <<"O","v","e","r","w","e","i","g","h","t">>,
     wet_mass_kg |-> 40000, dry_mass_kg |-> 50000, isp_avg |-> 300,
     payload_leo_kg |-> 2000, staging_factor |-> 100,
     refuel_dv_per_tanker |-> 0],
    \* no specific impulse
    [name |-> <<"B","a","l","l","a","s","t">>,
     wet_mass_kg |-> 40000, dry_mass_kg |-> 5000, isp_avg |-> 0,
     payload_leo_kg |-> 2000, staging_factor |-> 100,
     refuel_dv_per_tanker |-> 0] }

CapabilityPayloads ==
    {-200000, -42000, -1, 0, 1, 50, 51, 1000, 1750, 1751, 95000, 150000, 150001}

CallCalcCapability ==
    /\ \E r \in CapabilityRockets, payload \in CapabilityPayloads :
          call' = [fn |-> "calc_capability", rocket |-> r, x |-> payload,
                   ret |-> calc_capability(r, payload)]
    /\ UNCHANGED <<rockets, bodies, m, pc, res, entry>>

CallComputeTankerPlan ==
    /\ \E rate \in TankerRateInputs, shortage \in ShortageInputs :
          LET mis == [ZeroMission EXCEPT !.rocket.refuel_dv_per_tanker = rate]
          IN  call' = [fn |-> "compute_tanker_plan", rocket |-> mis.rocket,
                       x |-> shortage,
                       ret |-> compute_tanker_plan(mis, shortage)]
    /\ UNCHANGED <<rockets, bodies, m, pc, res, entry>>

NextFn ==
    \/ CallCalcCapability
    \/ CallComputeTankerPlan

SpecFn == Init /\ [][NextFn]_vars

(***************************************************************************)
(* Properties                                                              *)
(***************************************************************************)
Starship == <<"S","t","a","r","s","h","i","p">>
Titan == <<"T","i","t","a","n">>
Mars == <<"M","a","r","s">>
PSLV == <<"P","S","L","V">>

Ran == pc = "ran"

\* the strategy the priority order of the claim assigns
StrategyByPriority(baseMargin, rocketName, bodyName, payload) ==
    IF baseMargin < 0 THEN
        IF strstr(bodyName, Titan) THEN 2
        ELSE IF strstr(rocketName, Starship) THEN 3
        ELSE IF baseMargin > -1500000 THEN 4
        ELSE -1
    ELSE
        IF strstr(rocketName, PSLV) /\ strstr(bodyName, Mars) /\ payload <= 1500
        THEN 1
        ELSE 0

\* C1: every evaluation assigns the one strategy the priority order gives:
\* base margin < 0: Titan -> GravityAssist, else Starship -> OrbitalRefuel,
\* else margin > -1.5 -> KickStage, else Infeasible; base margin >= 0: PSLV to
\* Mars with payload <= 1500 -> ObertPerigeeKick, else Direct.  A Starship
\* short of Titan gets GravityAssist and no tankers.
C1_StrategyPriority ==
    Ran =>
        LET baseMargin == res.cap - res.total_req
        IN  /\ m.strategy = StrategyByPriority(baseMargin, m.rocket.name,
                                               m.body.name, m.payload_kg)
            /\ (/\ strstr(m.rocket.name, Starship)
                /\ strstr(m.body.name, Titan)
                /\ baseMargin < 0)
               => (m.strategy = 2 /\ res.tankers_needed = 0)

\* a Starship evaluated short of Titan: GravityAssist, no tankers
C1_Witness ==
    /\ Ran
    /\ strstr(m.rocket.name, Starship)
    /\ strstr(m.body.name, Titan)
    /\ res.cap - res.total_req < 0
    /\ m.strategy = 2
    /\ res.tankers_needed = 0

\* C2: after every evaluation required = 9.30 + transferDv + captureDv,
\* finalMargin = finalCapability - required, and success holds exactly when
\* finalMargin >= 0 and the strategy is not Infeasible.
C2_MarginAndSuccess ==
    Ran =>
        /\ res.total_req = 9300000 + m.body.dv_transfer + m.body.dv_capture
        /\ res.final_margin = res.final_cap - res.total_req
        /\ res.success <=> (res.final_margin >= 0 /\ m.strategy # -1)

\* an evaluation that fails on its margin though its strategy is not Infeasible
C2_Witness ==
    /\ Ran
    /\ m.strategy = 2
    /\ res.final_margin < 0
    /\ ~res.success

\* the bonus delta-v of a strategy
BonusOf(strategy) ==
    CASE strategy = 2 -> 4500000
      [] strategy = 4 -> 2000000
      [] strategy = 1 -> 6500000
      [] OTHER -> 0

\* C3: finalCapability is capability + tankersNeeded * refuelDvPerTanker under
\* OrbitalRefuel and capability + bonus otherwise (4.5 GravityAssist, 2.0
\* KickStage, 6.5 ObertPerigeeKick, 0 Direct and Infeasible); tankersNeeded is 0
\* for every strategy but OrbitalRefuel.
C3_FinalCapability ==
    Ran =>
        IF m.strategy = 3
        THEN res.final_cap =
                res.cap + res.tankers_needed * m.rocket.refuel_dv_per_tanker
        ELSE /\ res.final_cap = res.cap + BonusOf(m.strategy)
             /\ res.tankers_needed = 0

\* an OrbitalRefuel evaluation that needs more than one tanker
C3_Witness ==
    /\ Ran
    /\ m.strategy = 3
    /\ res.tankers_needed >= 2
    /\ res.final_cap > res.cap

\* C4: the tanker plan is 0 whenever refuelDvPerTanker <= 0 or shortage <= 0;
\* otherwise it is ceil(shortage / refuelDvPerTanker), the smallest n >= 1 with
\* n * refuelDvPerTanker >= shortage; a shortage of 7.0 at 5.5 per tanker gives 2.
C4_TankerPlan ==
    call.fn = "compute_tanker_plan" =>
        LET per == call.rocket.refuel_dv_per_tanker
            shortage == call.x
            n == call.ret
        IN  /\ (per <= 0 \/ shortage <= 0) => n = 0
            /\ (per > 0 /\ shortage > 0) =>
                  /\ n >= 1
                  /\ n * per >= shortage
                  /\ (n - 1) * per < shortage
            /\ (shortage = 7000000 /\ per = 5500000) => n = 2

\* the plan for a shortage of 7.0 km/s at 5.5 km/s per tanker
C4_Witness ==
    /\ call.fn = "compute_tanker_plan"
    /\ call.x = 7000000
    /\ call.rocket.refuel_dv_per_tanker = 5500000
    /\ call.ret = 2

\* capability is 0 above the payload capacity and 0 in a degenerate
\* configuration
CapabilityZeroCases ==
    LET r == call.rocket
        payload == call.x
    IN  /\ payload > r.payload_leo_kg => call.ret = 0
        /\ (\/ r.dry_mass_kg + payload <= 0
            \/ r.wet_mass_kg + payload <= r.dry_mass_kg + payload) => call.ret = 0

\* C5 as stated: capability is 0 above capacity and in a degenerate
\* configuration, and strictly positive for every rocket with dryMass < wetMass
\* and 0 <= payload <= maxPayload.
C5_AsStated ==
    call.fn = "calc_capability" =>
        LET r == call.rocket
            payload == call.x
        IN  /\ CapabilityZeroCases
            /\ (/\ r.dry_mass_kg < r.wet_mass_kg
                /\ 0 <= payload
                /\ payload <= r.payload_leo_kg) => call.ret > 0

\* C5, amended: capability is 0 above capacity and in a degenerate
\* configuration, and strictly positive for every rocket with dryMass < wetMass,
\* dryMass + payload > 0, a positive specific impulse and staging factor, and
\* 0 <= payload <= maxPayload.
C5_Capability ==
    call.fn = "calc_capability" =>
        LET r == call.rocket
            payload == call.x
        IN  /\ CapabilityZeroCases
            /\ (/\ r.dry_mass_kg < r.wet_mass_kg
                /\ r.dry_mass_kg + payload > 0
                /\ r.isp_avg > 0
                /\ r.staging_factor > 0
                /\ 0 <= payload
                /\ payload <= r.payload_leo_kg) => call.ret > 0

\* a rocket lifting a payload at its capacity, with a positive capability
C5_Witness ==
    /\ call.fn = "calc_capability"
    /\ call.rocket.dry_mass_kg < call.rocket.wet_mass_kg
    /\ call.x > 0
    /\ call.x = call.rocket.payload_leo_kg
    /\ call.ret > 0

\* the request's inputs on a zeroed Mission record
FreshMission(mis) ==
    [ZeroMission EXCEPT !.rocket = mis.rocket, !.body = mis.body,
                        !.start_date = mis.start_date,
                        !.payload_kg = mis.payload_kg]

\* C6: the catalog is never modified, and whatever earlier requests left in
\* the reused Mission record, the strategy, note, capability, required,
\* finalCapability, finalMargin, tankersNeeded, success and windows of a
\* request are those its rocket, body, payload and start date give on a fresh
\* record.
C6_NoHiddenState ==
    /\ rockets = CatalogRockets
    /\ bodies = CatalogBodies
    /\ Ran =>
          LET fresh == run_mission(FreshMission(m))
          IN  /\ m.strategy = fresh.m.strategy
              /\ m.notes = fresh.m.notes
              /\ res.cap = fresh.res.cap
              /\ res.total_req = fresh.res.total_req
              /\ res.final_cap = fresh.res.final_cap
              /\ res.final_margin = fresh.res.final_margin
              /\ res.tankers_needed = fresh.res.tankers_needed
              /\ res.success = fresh.res.success
              /\ res.windows = fresh.res.windows

\* a Direct evaluation on a record the earlier request left as OrbitalRefuel
C6_Witness ==
    /\ Ran
    /\ entry = 3
    /\ m.strategy = 0
    /\ res.success

\* C7: the table has exactly 5 windows, consecutive launches are one cycle
\* (synodicPeriodDays * 86400 s) apart, and every arrival is at or after its
\* launch.
C7_Windows ==
    Ran =>
        /\ Len(res.windows) = 5
        /\ \A i \in 1..(Len(res.windows) - 1) :
              (res.windows[i + 1].launch - res.windows[i].launch) * 10
                  = m.body.synodic_days * 86400
        /\ \A i \in 1..Len(res.windows) :
              res.windows[i].arrival >= res.windows[i].launch

\* a table projected from a start date at least one cycle after the epoch
C7_Witness ==
    /\ Ran
    /\ res.cycles >= 1
    /\ Len(res.windows) = 5
    /\ res.windows[5].launch > res.windows[1].launch

C9_UnparsedDateRejected ==
    (Ran /\ parse_date(m.start_date) = -1) => Len(res.windows) = 0

\* the catalog's Starship to Mars with 100,000 kg
ScenarioA ==
    /\ Ran
    /\ m.rocket = CatalogRockets[1]
    /\ m.body = CatalogBodies[2]
    /\ m.payload_kg = 100000

\* C10 as stated: Scenario A has base capability at or above the required
\* 15.2 km/s and yields Direct with success.
C10_AsStated ==
    ScenarioA =>
        /\ res.total_req = 15200000
        /\ res.cap >= res.total_req
        /\ m.strategy = 0
        /\ res.success

\* C10, amended: Scenario A has base capability below the required 15.2 km/s
\* (about 13.61 km/s) and yields OrbitalRefuel with one tanker and success.
C10_ScenarioA ==
    ScenarioA =>
        /\ res.total_req = 15200000
        /\ res.cap < res.total_req
        /\ res.cap > 13600000
        /\ res.cap < 13620000
        /\ m.strategy = 3
        /\ res.tankers_needed = 1
        /\ res.success

\* Scenario A evaluated
C10_Witness ==
    /\ ScenarioA
    /\ m.strategy = 3
    /\ res.success

\* the catalog's PSLV to Mars with 1,000 kg
ScenarioC ==
    /\ Ran
    /\ m.rocket = CatalogRockets[4]
    /\ m.body = CatalogBodies[2]
    /\ m.payload_kg = 1000

\* C11: Scenario C has base margin >= 0 and yields ObertPerigeeKick with a
\* bonus of +6.5 km/s and success.
C11_ScenarioC ==
    ScenarioC =>
        /\ res.cap - res.total_req >= 0
        /\ m.strategy = 1
        /\ res.bonus_dv = 6500000
        /\ res.success

\* C12: whatever the start date, before or after the body's epoch, every
\* launch instant of the table is at or after the start instant.
C12_WindowsUpcoming ==
    Ran => \A i \in 1..Len(res.windows) : res.windows[i].launch >= res.start

\* C13: for every window, arrival - launch is 2555 days when the strategy is
\* GravityAssist, which only occurs for a body whose name contains "Titan", and
\* the body's typicalTransitDays for every other strategy, a Titan mission with
\* a non-negative base margin included.
C13_TransitDays ==
    Ran =>
        /\ m.strategy = 2 => strstr(m.body.name, Titan)
        /\ \A i \in 1..Len(res.windows) :
              res.windows[i].arrival - res.windows[i].launch =
                  (IF m.strategy = 2 THEN 2555 ELSE m.body.typical_transit_days)
                      * 86400

\* a Titan mission with a non-negative base margin: Direct, with the body's
\* own transit time
C13_Witness ==
    /\ Ran
    /\ strstr(m.body.name, Titan)
    /\ res.cap - res.total_req >= 0
    /\ m.strategy = 0
    /\ Len(res.windows) = 5
    /\ res.windows[1].arrival - res.windows[1].launch
          = m.body.typical_transit_days * 86400

=============================================================================
